---- MODULE Spec2Model ----
(***************************************************************************)
(* Model of src/app.py: the age-bracket lookup, the playlist generation    *)
(* request, the response parser and the button handler of main().          *)
(*                                                                         *)
(* Text representation.  A response text is a sequence of lines (the       *)
(* result of split('\n')); a line is a sequence of tokens, and the Python   *)
(* string of a line is its tokens joined by single spaces.  Tokens are      *)
(* chosen so that the substrings the code looks for ('Title:', '- ',       *)
(* ' by ', ' (', ')') can only match at token boundaries, and so that a    *)
(* token is either made entirely of the characters "0123456789.-" or has   *)
(* none of them at its ends.                                               *)
(*                                                                         *)
(* Numbers.  A popularity is an integer number of hundredths (0.5 is 50).  *)
(***************************************************************************)
EXTENDS Integers, Sequences, FiniteSets, TLC

VARIABLES
    pc,                 \* position in main / generate_playlist / parser
    age,                \* st.number_input("Age")
    age_group,          \* agent.get_age_group(age)
    recommended_genres, \* agent.genre_by_age[age_group]
    selected_genres,    \* st.multiselect(...)
    blocks,             \* the items the generation service wrote
    response_text,      \* response.choices[0].message.content, as lines
    lines,              \* local `lines` of _parse_playlist_response
    line_no,            \* position of the `for line in lines` loop
    current_song,       \* local `current_song` of _parse_playlist_response
    songs,              \* local `songs` of _parse_playlist_response
    playlist,           \* value returned by _parse_playlist_response
    result,             \* value returned by generate_playlist
    failed,             \* the service call raised
    distribution,       \* <<popular, moderate, hidden>> of st.info
    st_log              \* messages written to the page, in order

vars == <<pc, age, age_group, recommended_genres, selected_genres, blocks,
          response_text, lines, line_no, current_song, songs, playlist,
          result, failed, distribution, st_log>>

---------------------------------------------------------------------------
(* Bounds of the model *)

MaxItems == 3
LongExtra == 2
AgeSpan == 60

(* Program constants *)

MaxSongs == 25
DefaultPopularity == 50
MinPopularity == 0
MaxPopularity == 100
PopularFrom == 80
ModerateFrom == 50
AgeWidgetDefault == 25
DefaultGenreCount == 2

---------------------------------------------------------------------------
(* Sequence helpers *)

Range(s) == {s[i] : i \in DOMAIN s}

Take(s, n) == SubSeq(s, 1, IF n < Len(s) THEN n ELSE Len(s))

Drop(s, n) == SubSeq(s, n + 1, Len(s))

Positions(s, tok) == {i \in DOMAIN s : s[i] = tok}

MinOf(S) == CHOOSE m \in S : \A n \in S : m <= n

RECURSIVE Flatten(_)
Flatten(ss) == IF ss = <<>> THEN <<>> ELSE Head(ss) \o Flatten(Tail(ss))

---------------------------------------------------------------------------
(* The age table and get_age_group *)

genre_by_age ==
    [g \in {"13-17", "18-24", "25-34", "35-44", "45+"} |->
        CASE g = "13-17" -> <<"Pop", "Hip Hop", "K-pop", "Alternative", "Indie">>
          [] g = "18-24" -> <<"Pop", "Hip Hop", "R&B", "Alternative", "Electronic", "Indie">>
          [] g = "25-34" -> <<"Pop", "Rock", "Hip Hop", "R&B", "Alternative", "Electronic">>
          [] g = "35-44" -> <<"Rock", "Pop", "Alternative", "Country", "R&B", "Jazz">>
          [] g = "45+"   -> <<"Classic Rock", "Jazz", "Classical", "Country", "Folk">>]

get_age_group_inclusive(a) ==
    IF a <= 18 THEN "13-17"
    ELSE IF a <= 25 THEN "18-24"
    ELSE IF a <= 35 THEN "25-34"
    ELSE IF a <= 45 THEN "35-44"
    ELSE "45+"

get_age_group(a) ==
    IF a < 18 THEN "13-17"
    ELSE IF a < 25 THEN "18-24"
    ELSE IF a < 35 THEN "25-34"
    ELSE IF a < 45 THEN "35-44"
    ELSE "45+"

---------------------------------------------------------------------------
(* String operations of the parser, on token sequences *)

\* 'label' in line
Contains(line, tok) == Positions(line, tok) # {}

\* line.replace('- ', '').strip(): every "-" that is followed by a space,
\* that is every "-" token but one in last position, disappears.
RECURSIVE RemovePrefixes(_)
RemovePrefixes(line) ==
    IF line = <<>> THEN <<>>
    ELSE IF Head(line) = "-" /\ Len(line) > 1 THEN RemovePrefixes(Tail(line))
    ELSE <<Head(line)>> \o RemovePrefixes(Tail(line))

\* line.split(label)[1].strip(), for a line that contains the label
AfterLabel(line, label) ==
    LET first == MinOf(Positions(line, label))
        rest == Drop(line, first)
        stop == IF Contains(rest, label)
                THEN MinOf(Positions(rest, label)) - 1 ELSE Len(rest)
    IN Take(rest, stop)

---------------------------------------------------------------------------
(* float(), the clamp and the Song constructor *)

NumberTokens == {"0.9", "1.5", "-0.3", "nan"}

\* float(text): succeeds on exactly one numeric literal; "nan" parses to a
\* NaN, every other text raises ValueError.
ParseFloat(value) ==
    IF Len(value) = 1 /\ value[1] \in NumberTokens
    THEN [ok |-> TRUE, nan |-> value[1] = "nan",
          val |-> CASE value[1] = "0.9" -> 90
                    [] value[1] = "1.5" -> 150
                    [] value[1] = "-0.3" -> -30
                    [] OTHER -> 0]
    ELSE [ok |-> FALSE, nan |-> FALSE, val |-> 0]

\* x < y on floats: false when either side is a NaN
FloatLess(x, y) == ~x.nan /\ ~y.nan /\ x.val < y.val

\* Python min(a, b) and max(a, b): b only if it compares strictly better
PyMin(a, b) == IF FloatLess(b, a) THEN b ELSE a

PyMax(a, b) == IF FloatLess(a, b) THEN b ELSE a

AsFloat(n) == [ok |-> TRUE, nan |-> FALSE, val |-> n]

ClampPopularityLowerOnly(f) == PyMax(AsFloat(MinPopularity), f).val

\* max(0.0, min(1.0, popularity))
ClampPopularity(f) ==
    PyMax(AsFloat(MinPopularity), PyMin(AsFloat(MaxPopularity), f)).val

EmptyDict == [k \in {} |-> 0]

\* current_song[key] = value
SetKey(dict, key, value) == (key :> value) @@ dict

\* current_song and all(k in current_song for k in ['title','artist','genre'])
IsComplete(dict) == {"title", "artist", "genre"} \subseteq DOMAIN dict

\* Song(**current_song), after the default popularity has been filled in
MakeSong(dict) ==
    [title |-> dict["title"], artist |-> dict["artist"],
     genre |-> dict["genre"],
     popularity |-> IF "popularity" \in DOMAIN dict
                    THEN dict["popularity"] ELSE DefaultPopularity]

---------------------------------------------------------------------------
(* The labelled-line pass of _parse_playlist_response *)

\* [line.strip() for line in response_text.split('\n') if line.strip()]
NonEmptyLines(text) == SelectSeq(text, LAMBDA l : l # <<>>)

\* one iteration of `for line in lines`
ParseLine(st, rawline) ==
    LET line == RemovePrefixes(rawline)
        cur == st.current_song
    IN  IF Contains(line, "Title:")
        THEN IF IsComplete(cur)
             THEN [songs |-> Append(st.songs, MakeSong(cur)),
                   current_song |->
                       SetKey(EmptyDict, "title", AfterLabel(line, "Title:"))]
             ELSE [songs |-> st.songs,
                   current_song |->
                       SetKey(cur, "title", AfterLabel(line, "Title:"))]
        ELSE IF Contains(line, "Artist:")
        THEN [st EXCEPT !.current_song =
                  SetKey(cur, "artist", AfterLabel(line, "Artist:"))]
        ELSE IF Contains(line, "Genre:")
        THEN [st EXCEPT !.current_song =
                  SetKey(cur, "genre", AfterLabel(line, "Genre:"))]
        ELSE IF Contains(line, "Popularity:")
        THEN LET f == ParseFloat(AfterLabel(line, "Popularity:"))
             IN [st EXCEPT !.current_song =
                    SetKey(cur, "popularity",
                           IF f.ok THEN ClampPopularity(f)
                           ELSE DefaultPopularity)]
        ELSE st

\* lines 144-148: the last song is added if complete
FlushLast(st) ==
    IF IsComplete(st.current_song)
    THEN Append(st.songs, MakeSong(st.current_song))
    ELSE st.songs

---------------------------------------------------------------------------
(* The alternative format: '<title> by <artist> (<genre>)' *)

StripTokens == {"-", "1.", "69"}

\* text.strip('0123456789.- '): tokens made of those characters go, at
\* both ends of the text
RECURSIVE StripLeft(_)
StripLeft(toks) ==
    IF toks # <<>> /\ Head(toks) \in StripTokens
    THEN StripLeft(Tail(toks)) ELSE toks

RECURSIVE StripRight(_)
StripRight(toks) ==
    IF toks # <<>> /\ toks[Len(toks)] \in StripTokens
    THEN StripRight(SubSeq(toks, 1, Len(toks) - 1)) ELSE toks

StripNumbering(toks) == StripRight(StripLeft(toks))

\* occurrences of ' by ': a "by" token with a token on either side
ByPositions(line) == {i \in Positions(line, "by") : 1 < i /\ i < Len(line)}

\* ' by ' in line and ' (' in line and ')' in line
IsAlternativeLine(line) ==
    /\ ByPositions(line) # {}
    /\ \E i \in Positions(line, "(") : i > 1
    /\ Contains(line, ")")

\* line.split(' by ')[0].strip('0123456789.- ')
AlternativeTitle(line) == StripNumbering(Take(line, MinOf(ByPositions(line)) - 1))

\* line.split(' by ')[1].split(' (')[0].strip()
AlternativeArtist(line) ==
    LET first == MinOf(ByPositions(line))
        later == {i \in ByPositions(line) : i >= first + 2}
        stop == IF later = {} THEN Len(line) ELSE MinOf(later) - 1
        part == SubSeq(line, first + 1, stop)
        parens == {i \in Positions(part, "(") : i > 1}
    IN  IF parens = {} THEN part ELSE Take(part, MinOf(parens) - 1)

\* line.split('(')[1].split(')')[0].strip()
AlternativeGenre(line) ==
    LET part == AfterLabel(line, "(")
    IN  IF Contains(part, ")")
        THEN Take(part, MinOf(Positions(part, ")")) - 1) ELSE part

\* lines 155-162: the loop over response_text.split('\n')
RECURSIVE AlternativeSongs(_)
AlternativeSongs(text) ==
    IF text = <<>> THEN <<>>
    ELSE (IF IsAlternativeLine(Head(text))
          THEN <<[title |-> AlternativeTitle(Head(text)),
                  artist |-> AlternativeArtist(Head(text)),
                  genre |-> AlternativeGenre(Head(text)),
                  popularity |-> DefaultPopularity]>>
          ELSE <<>>) \o AlternativeSongs(Tail(text))

---------------------------------------------------------------------------
(* songs.sort(key=lambda x: x.popularity, reverse=True); songs[:25] *)

\* stable insertion: s goes after every song at least as popular
RECURSIVE InsertByPopularity(_, _)
InsertByPopularity(s, sorted) ==
    IF sorted = <<>> THEN <<s>>
    ELSE IF Head(sorted).popularity >= s.popularity
         THEN <<Head(sorted)>> \o InsertByPopularity(s, Tail(sorted))
         ELSE <<s>> \o sorted

RECURSIVE SortFrom(_, _)
SortFrom(sorted, rest) ==
    IF rest = <<>> THEN sorted
    ELSE SortFrom(InsertByPopularity(Head(rest), sorted), Tail(rest))

SortByPopularityUnsorted(list) == list

SortByPopularity(list) == SortFrom(<<>>, list)

TruncateNothing(list) == list

Truncate(list) == Take(list, MaxSongs)

---------------------------------------------------------------------------
(* The texts the generation service may answer with.  A text is written   *)
(* as a sequence of items; item k uses the words t[k], a[k] and g[k].     *)

LabelledShapes == {"full", "full_pop", "full_over", "full_under",
                   "full_text", "full_nan", "full_dash",
                   "no_artist", "no_genre_pop"}

Shapes == LabelledShapes \cup {"by", "by_numbered", "by_digits",
                               "garbage", "blank"}

Word(letter, k) == letter \o "[" \o ToString(k) \o "]"

\* the title, artist, genre and popularity text an item is written with
TitleOf(shape, k) ==
    CASE shape = "full_dash" -> <<Word("t", k), "-", "live">>
      [] shape = "by_digits" -> <<Word("t", k), "69">>
      [] OTHER -> <<Word("t", k)>>

ArtistOf(k) == <<Word("a", k)>>

GenreOf(k) == <<Word("g", k)>>

PopularityTextOf(shape) ==
    CASE shape \in {"full_pop", "no_genre_pop"} -> <<"0.9">>
      [] shape = "full_over" -> <<"1.5">>
      [] shape = "full_under" -> <<"-0.3">>
      [] shape = "full_nan" -> <<"nan">>
      [] shape = "full_text" -> <<"high">>
      [] OTHER -> <<>>

HasArtist(shape) == shape \in LabelledShapes \ {"no_artist"}

HasGenre(shape) == shape \in LabelledShapes \ {"no_genre_pop"}

HasPopularity(shape) == PopularityTextOf(shape) # <<>>

\* the lines of item k
RenderItem(shape, k) ==
    IF shape \in LabelledShapes
    THEN <<<<"-", "Title:">> \o TitleOf(shape, k)>>
         \o (IF HasArtist(shape)
             THEN <<<<"-", "Artist:">> \o ArtistOf(k)>> ELSE <<>>)
         \o (IF HasGenre(shape)
             THEN <<<<"-", "Genre:">> \o GenreOf(k)>> ELSE <<>>)
         \o (IF HasPopularity(shape)
             THEN <<<<"-", "Popularity:">> \o PopularityTextOf(shape)>>
             ELSE <<>>)
    ELSE CASE shape = "by" ->
                <<TitleOf(shape, k) \o <<"by">> \o ArtistOf(k)
                  \o <<"(">> \o GenreOf(k) \o <<")">>>>
           [] shape = "by_numbered" ->
                <<<<"1.">> \o TitleOf(shape, k) \o <<"by">> \o ArtistOf(k)
                  \o <<"(">> \o GenreOf(k) \o <<")">>>>
           [] shape = "by_digits" ->
                <<TitleOf(shape, k) \o <<"by">> \o ArtistOf(k)
                  \o <<"(">> \o GenreOf(k) \o <<")">>>>
           [] shape = "garbage" -> <<<<"Here", "is", "your", "playlist">>>>
           [] OTHER -> <<<<>>>>

RenderText(items) == Flatten([k \in DOMAIN items |-> RenderItem(items[k], k)])

ShortItems == UNION {[1..n -> Shapes] : n \in 0..MaxItems}

\* long answers: n items of one base shape, with two marked positions
LongFamilies == {<<"full", "full_pop", "full_under">>,
                 <<"by", "garbage", "by_numbered">>,
                 <<"full", "by", "garbage">>}

LongItemsOf(fam, n, hi, lo) ==
    [k \in 1..n |-> IF k = hi THEN fam[2] ELSE IF k = lo THEN fam[3]
                    ELSE fam[1]]

LongItems ==
    {LongItemsOf(fam, n, hi, lo) :
        fam \in LongFamilies,
        n \in (MaxSongs - LongExtra)..(MaxSongs + LongExtra),
        hi \in 0..(MaxSongs + LongExtra),
        lo \in {0, 1, MaxSongs - LongExtra}}

ProbeAges == (AgeWidgetDefault - AgeSpan)..(AgeWidgetDefault + AgeSpan)

---------------------------------------------------------------------------
(* Messages written to the page *)

MsgWarnGenre == "warning: Please select at least one genre to continue."
MsgErrService == "error: Error generating playlist"
MsgErrParse == "error: Failed to parse the playlist. Trying alternative format..."
MsgErrGenerate == "error: Failed to generate playlist. Please try again."
MsgInfo == "info: Playlist distribution"
MsgSuccess == "success: Playlist generated successfully!"
MsgHeader == "header: Your Personalized Playlist"

ErrorMessages == {MsgErrService, MsgErrParse, MsgErrGenerate}

ExceptLogSilent(log) == log

\* except Exception as e: st.error(...)
ExceptLog(log) == Append(log, MsgErrService)

\* len([s for s in playlist if s.popularity >= 0.8]), and the two others
CountPopular(list) ==
    Cardinality({i \in DOMAIN list : list[i].popularity >= PopularFrom})

CountModerate(list) ==
    Cardinality({i \in DOMAIN list : /\ ModerateFrom <= list[i].popularity
                                     /\ list[i].popularity < PopularFrom})

CountHidden(list) ==
    Cardinality({i \in DOMAIN list : list[i].popularity < ModerateFrom})

---------------------------------------------------------------------------
(* Initial states *)

InitCommon ==
    /\ age_group = ""
    /\ recommended_genres = <<>>
    /\ selected_genres = <<>>
    /\ blocks = <<>>
    /\ response_text = <<>>
    /\ lines = <<>>
    /\ line_no = 1
    /\ current_song = EmptyDict
    /\ songs = <<>>
    /\ playlist = <<>>
    /\ result = <<>>
    /\ failed = FALSE
    /\ distribution = <<0, 0, 0>>
    /\ st_log = <<>>

\* the page as first drawn: the age widget shows its default
Init ==
    /\ pc = "sidebar"
    /\ age = AgeWidgetDefault
    /\ InitCommon

\* get_age_group called with any integer
InitAge ==
    /\ pc = "sidebar"
    /\ age \in ProbeAges
    /\ InitCommon

\* _parse_playlist_response entered with a long answer, lines 113-119 done
InitLong ==
    /\ pc = "loop"
    /\ age = AgeWidgetDefault
    /\ age_group = get_age_group(AgeWidgetDefault)
    /\ recommended_genres = genre_by_age[age_group]
    /\ selected_genres = Take(recommended_genres, DefaultGenreCount)
    /\ blocks \in LongItems
    /\ response_text = RenderText(blocks)
    /\ lines = NonEmptyLines(response_text)
    /\ line_no = 1
    /\ current_song = EmptyDict
    /\ songs = <<>>
    /\ playlist = <<>>
    /\ result = <<>>
    /\ failed = FALSE
    /\ distribution = <<0, 0, 0>>
    /\ st_log = <<>>

---------------------------------------------------------------------------
(* main(): the sidebar *)

Sidebar ==
    /\ pc = "sidebar"
    /\ age_group' = get_age_group(age)
    /\ IF age_group' \in DOMAIN genre_by_age
       THEN /\ recommended_genres' = genre_by_age[age_group']
            /\ pc' = "select"
       ELSE /\ recommended_genres' = <<>>
            /\ pc' = "KeyError"
    /\ UNCHANGED <<age, selected_genres, blocks, response_text, lines,
                   line_no, current_song, songs, playlist, result, failed,
                   distribution, st_log>>

\* the multiselect keeps its default or is cleared by the user
SelectGenres ==
    /\ pc = "select"
    /\ \E sel \in {<<>>, Take(recommended_genres, DefaultGenreCount)} :
          /\ selected_genres' = sel
          /\ IF sel = <<>>
             THEN /\ st_log' = Append(st_log, MsgWarnGenre)
                  /\ pc' = "done"
             ELSE /\ st_log' = st_log
                  /\ pc' = "button"
    /\ UNCHANGED <<age, age_group, recommended_genres, blocks, response_text,
                   lines, line_no, current_song, songs, playlist, result,
                   failed, distribution>>

\* st.button("Generate Playlist") is pressed
Click ==
    /\ pc = "button"
    /\ pc' = "generate"
    /\ UNCHANGED <<age, age_group, recommended_genres, selected_genres,
                   blocks, response_text, lines, line_no, current_song, songs,
                   playlist, result, failed, distribution, st_log>>

---------------------------------------------------------------------------
(* generate_playlist *)

\* openai.ChatCompletion.create raises
ServiceFail ==
    /\ pc = "generate"
    /\ failed' = TRUE
    /\ st_log' = ExceptLog(st_log)
    /\ result' = <<>>
    /\ pc' = "returned"
    /\ UNCHANGED <<age, age_group, recommended_genres, selected_genres,
                   blocks, response_text, lines, line_no, current_song, songs,
                   playlist, distribution>>

\* the service answers with some text and the parser is entered:
\* lines 91 and 113-119
ServiceOk ==
    /\ pc = "generate"
    /\ \E items \in ShortItems :
          /\ blocks' = items
          /\ response_text' = RenderText(items)
    /\ lines' = NonEmptyLines(response_text')
    /\ line_no' = 1
    /\ current_song' = EmptyDict
    /\ songs' = <<>>
    /\ pc' = "loop"
    /\ UNCHANGED <<age, age_group, recommended_genres, selected_genres,
                   playlist, result, failed, distribution, st_log>>

\* one iteration of the loop of lines 121-142
LoopStep ==
    /\ pc = "loop"
    /\ line_no <= Len(lines)
    /\ LET st == ParseLine([songs |-> songs, current_song |-> current_song],
                           lines[line_no])
       IN  /\ songs' = st.songs
           /\ current_song' = st.current_song
    /\ line_no' = line_no + 1
    /\ UNCHANGED <<pc, age, age_group, recommended_genres, selected_genres,
                   blocks, response_text, lines, playlist, result, failed,
                   distribution, st_log>>

\* the loop is over: lines 144-148
LoopEnd ==
    /\ pc = "loop"
    /\ line_no > Len(lines)
    /\ songs' = FlushLast([songs |-> songs, current_song |-> current_song])
    /\ pc' = "alternative"
    /\ UNCHANGED <<age, age_group, recommended_genres, selected_genres,
                   blocks, response_text, lines, line_no, current_song,
                   playlist, result, failed, distribution, st_log>>

\* lines 150-164
AlternativeParse ==
    /\ pc = "alternative"
    /\ IF songs = <<>>
       THEN /\ st_log' = Append(st_log, MsgErrParse)
            /\ songs' = AlternativeSongs(response_text)
       ELSE UNCHANGED <<st_log, songs>>
    /\ pc' = "sort"
    /\ UNCHANGED <<age, age_group, recommended_genres, selected_genres,
                   blocks, response_text, lines, line_no, current_song,
                   playlist, result, failed, distribution>>

\* lines 166-168
SortTruncate ==
    /\ pc = "sort"
    /\ songs' = SortByPopularity(songs)
    /\ playlist' = Truncate(songs')
    /\ pc' = "parsed"
    /\ UNCHANGED <<age, age_group, recommended_genres, selected_genres,
                   blocks, response_text, lines, line_no, current_song,
                   result, failed, distribution, st_log>>

\* lines 93-107
GenerateReturn ==
    /\ pc = "parsed"
    /\ IF playlist = <<>>
       THEN /\ st_log' = Append(st_log, MsgErrGenerate)
            /\ result' = <<>>
            /\ UNCHANGED distribution
       ELSE /\ distribution' =
                 <<CountPopular(playlist), CountModerate(playlist),
                   CountHidden(playlist)>>
            /\ st_log' = Append(st_log, MsgInfo)
            /\ result' = playlist
    /\ pc' = "returned"
    /\ UNCHANGED <<age, age_group, recommended_genres, selected_genres,
                   blocks, response_text, lines, line_no, current_song, songs,
                   playlist, failed>>

---------------------------------------------------------------------------
(* main(): after generate_playlist returned, lines 213-229 *)

MainShow ==
    /\ pc = "returned"
    /\ st_log' = st_log \o <<MsgSuccess, MsgHeader>>
    /\ pc' = "done"
    /\ UNCHANGED <<age, age_group, recommended_genres, selected_genres,
                   blocks, response_text, lines, line_no, current_song, songs,
                   playlist, result, failed, distribution>>

---------------------------------------------------------------------------
(* Specifications *)

Next ==
    \/ Sidebar
    \/ SelectGenres
    \/ Click
    \/ ServiceFail
    \/ ServiceOk
    \/ LoopStep
    \/ LoopEnd
    \/ AlternativeParse
    \/ SortTruncate
    \/ GenerateReturn
    \/ MainShow

Spec == Init /\ [][Next]_vars

NextAge == Sidebar \/ SelectGenres

SpecAge == InitAge /\ [][NextAge]_vars

NextLong == LoopStep \/ LoopEnd \/ AlternativeParse \/ SortTruncate

SpecLong == InitLong /\ [][NextLong]_vars

---------------------------------------------------------------------------
(* What the answer was written to say, item by item *)

ByShapes == {"by", "by_numbered", "by_digits"}

CompleteShapes == {sh \in LabelledShapes : HasArtist(sh) /\ HasGenre(sh)}

\* the items whose word for `letter` occurs in a text
ItemsIn(toks, letter) ==
    {k \in DOMAIN blocks : Word(letter, k) \in Range(toks)}

\* the popularity a labelled item states, in hundredths
StatedPopularity(shape) ==
    CASE shape \in {"full_pop", "no_genre_pop"} -> 90
      [] shape = "full_over" -> 150
      [] shape = "full_under" -> -30

StatesNumber(shape) ==
    shape \in {"full_pop", "no_genre_pop", "full_over", "full_under"}

InRange(v) == IF v < 0 THEN 0 ELSE IF v > 100 THEN 100 ELSE v

NonIncreasing(list) ==
    \A i \in 1..(Len(list) - 1) : list[i].popularity >= list[i + 1].popularity

Copies(list, x) == Cardinality({i \in DOMAIN list : list[i] = x})

FallbackRan == MsgErrParse \in Range(st_log)

---------------------------------------------------------------------------
\* C1: whatever the text, the list returned by _parse_playlist_response
\* has at most 25 songs.
C1_AtMost25 == Len(playlist) <= 25

C1_Witness ==
    /\ pc = "parsed"
    /\ Len(songs) > 25
    /\ Len(playlist) = 25

\* C2: the returned list is the parsed songs sorted by popularity
\* descending and cut to the first 25: it is in non-increasing order, it
\* holds min(25, n) of the n parsed songs, and no omitted song is more
\* popular than a returned one.
C2_SortedThenTruncated ==
    [][pc = "sort" =>
        /\ Len(playlist') = (IF Len(songs) < 25 THEN Len(songs) ELSE 25)
        /\ NonIncreasing(playlist')
        /\ \A x \in Range(playlist') :
              Copies(playlist', x) <= Copies(songs, x)
        /\ \A x \in Range(songs) :
              Copies(playlist', x) < Copies(songs, x) =>
                  \A y \in Range(playlist') : y.popularity >= x.popularity
    ]_vars

C2_Witness ==
    /\ pc = "parsed"
    /\ Len(songs) > 25
    /\ \E k \in DOMAIN blocks : k > 25 /\ blocks[k] = "full_pop"
    /\ playlist[1].popularity = 90
    /\ playlist[25].popularity = 50
    /\ songs[Len(songs)].popularity = 0

\* C3: a text of N complete song blocks (0 < N <= 25) gives exactly N
\* songs, each with the title, artist, genre and popularity of its own
\* block, in descending-popularity order.
C3_CompleteBlocks ==
    (/\ pc = "parsed"
     /\ blocks # <<>>
     /\ Len(blocks) <= 25
     /\ \A k \in DOMAIN blocks : blocks[k] \in CompleteShapes)
    =>
    /\ Len(playlist) = Len(blocks)
    /\ NonIncreasing(playlist)
    /\ \A k \in DOMAIN blocks :
          \E i \in DOMAIN playlist :
             /\ playlist[i].title = TitleOf(blocks[k], k)
             /\ playlist[i].artist = ArtistOf(k)
             /\ playlist[i].genre = GenreOf(k)
             /\ StatesNumber(blocks[k]) =>
                    playlist[i].popularity = InRange(StatedPopularity(blocks[k]))
             /\ blocks[k] \in {"full", "full_dash", "full_text"} =>
                    playlist[i].popularity = 50

\* C4: a block without an Artist: line or without a Genre: line is
\* discarded: no returned song has its title, and the title, artist and
\* genre of every returned song come from one and the same block.
C4_PartialBlocksDiscarded ==
    pc = "parsed" =>
        \A i \in DOMAIN playlist :
            \E k \in DOMAIN blocks :
               /\ blocks[k] \in CompleteShapes \cup ByShapes
               /\ ItemsIn(playlist[i].title, "t") = {k}
               /\ ItemsIn(playlist[i].artist, "a") = {k}
               /\ ItemsIn(playlist[i].genre, "g") = {k}

\* C5: a returned song whose block has no Popularity: line, or one that
\* is not a number, has popularity exactly 0.5.
C5_DefaultPopularity ==
    pc = "parsed" =>
        \A i \in DOMAIN playlist :
            \A k \in ItemsIn(playlist[i].title, "t") :
                (/\ blocks[k] \in LabelledShapes
                 /\ ~HasPopularity(blocks[k]) \/ blocks[k] = "full_text")
                => playlist[i].popularity = 50

\* C6: every returned song has a popularity within [0.0, 1.0]; a stated
\* value below 0 becomes 0.0, one above 1 becomes 1.0, one in range is kept.
C6_PopularityClamped ==
    /\ \A i \in DOMAIN songs :
          /\ 0 <= songs[i].popularity /\ songs[i].popularity <= 100
          /\ \A k \in ItemsIn(songs[i].title, "t") :
                StatesNumber(blocks[k]) =>
                    songs[i].popularity = InRange(StatedPopularity(blocks[k]))
    /\ \A i \in DOMAIN playlist :
          0 <= playlist[i].popularity /\ playlist[i].popularity <= 100
    /\ \A i \in DOMAIN result :
          0 <= result[i].popularity /\ result[i].popularity <= 100

C6_Witness ==
    /\ pc = "returned"
    /\ Len(blocks) = 3
    /\ \E i, j, l \in DOMAIN result :
          /\ blocks[1] = "full_over" /\ result[i].title = TitleOf("full_over", 1)
          /\ result[i].popularity = 100
          /\ blocks[2] = "full_under" /\ result[l].title = TitleOf("full_under", 2)
          /\ result[l].popularity = 0
          /\ blocks[3] = "full_pop" /\ result[j].title = TitleOf("full_pop", 3)
          /\ result[j].popularity = 90

\* C7: generate_playlist returns the empty list, after at least one error
\* message, when the service call fails or the text yields no song; it
\* returns a non-empty list only when the parser produced a song.
C7_FailuresGiveEmptyList ==
    pc = "returned" =>
        /\ (failed \/ songs = <<>>) =>
              /\ result = <<>>
              /\ \E i \in DOMAIN st_log : st_log[i] \in ErrorMessages
        /\ result # <<>> => ~failed /\ songs # <<>> /\ result = playlist

C7_Witness ==
    /\ pc = "returned"
    /\ failed
    /\ result = <<>>
    /\ st_log = <<MsgErrService>>

\* C8: the alternative format is tried if and only if the labelled lines
\* gave no song; then every '<title> by <artist> (<genre>)' line gives one
\* song with that title (leading numbering stripped), artist and genre and
\* popularity 0.5, and other lines give nothing; otherwise no such line
\* contributes a song.
C8_AlternativeFormat ==
    [][pc = "alternative" =>
        IF songs = <<>>
        THEN /\ st_log' = Append(st_log, MsgErrParse)
             /\ LET ks == SelectSeq([k \in DOMAIN blocks |-> k],
                                    LAMBDA k : blocks[k] \in ByShapes)
                IN  songs' = [i \in DOMAIN ks |->
                                [title |-> TitleOf(blocks[ks[i]], ks[i]),
                                 artist |-> ArtistOf(ks[i]),
                                 genre |-> GenreOf(ks[i]),
                                 popularity |-> 50]]
        ELSE songs' = songs /\ st_log' = st_log
    ]_vars

\* C9: get_age_group gives '13-17' below 18, '18-24' from 18 to 24,
\* '25-34' from 25 to 34, '35-44' from 35 to 44 and '45+' from 45 on; the
\* label is always a key of genre_by_age, so the lookup in main succeeds.
C9_AgeBrackets ==
    pc # "sidebar" =>
        /\ (age_group = "13-17") <=> (age < 18)
        /\ (age_group = "18-24") <=> (18 <= age /\ age < 25)
        /\ (age_group = "25-34") <=> (25 <= age /\ age < 35)
        /\ (age_group = "35-44") <=> (35 <= age /\ age < 45)
        /\ (age_group = "45+") <=> (age >= 45)
        /\ age_group \in {"13-17", "18-24", "25-34", "35-44", "45+"}
        /\ pc # "KeyError"
        /\ Len(recommended_genres) >= 5

C9_Witness ==
    /\ pc = "select"
    /\ age = 18
    /\ age_group = "18-24"
    /\ recommended_genres[3] = "R&B"

\* C10: after generate_playlist reported a failed service call and
\* returned the empty list, the click shows neither the success message
\* nor the playlist; the success message only follows a non-empty playlist.
C10_NoSuccessAfterFailure ==
    /\ failed => MsgSuccess \notin Range(st_log) /\ MsgHeader \notin Range(st_log)
    /\ MsgSuccess \in Range(st_log) => result # <<>>

====
